---- MODULE Spec2Model ----
(***************************************************************************)
(* prime-utils: the largest prime strictly below an unsigned 64-bit        *)
(* integer.  src/src/lib.rs holds the library (mod_mul, mod_pow, is_prime, *)
(* largest_prime_below); src/src/main.rs and                               *)
(* src/src/bin/largest_prime_below.rs are the two executables.             *)
(*                                                                         *)
(* All quantities are u64 in the source.  Every value the model handles is *)
(* far below 2^64, and mod_mul forms its product in u128, so no operation  *)
(* of the modelled range wraps; the one place where the source itself      *)
(* guards against wrap-around, saturating_sub, is modelled as such.        *)
(***************************************************************************)
EXTENDS Integers, Sequences, FiniteSets, TLC

VARIABLES
    \* one call of largest_prime_below, statement by statement
    pc, n, candidate, result, tested, subFrom, exitAt,
    \* one call of is_prime
    on, oans, opc,
    \* one call of mod_pow, iteration by iteration
    pw, pw0, ppc,
    \* a pair of calls of largest_prime_below
    ma, mb, ra, rb, mpc,
    \* one run of an executable
    entry, argv, outcome, stdout, stderr, exitCode, cpc

vars == <<pc, n, candidate, result, tested, subFrom, exitAt,
          on, oans, opc, pw, pw0, ppc, ma, mb, ra, rb, mpc,
          entry, argv, outcome, stdout, stderr, exitCode, cpc>>

searchVars == <<pc, n, candidate, result, tested, subFrom, exitAt>>
oracleVars == <<on, oans, opc>>
powVars    == <<pw, pw0, ppc>>
monoVars   == <<ma, mb, ra, rb, mpc>>
cliVars    == <<entry, argv, outcome, stdout, stderr, exitCode, cpc>>

----------------------------------------------------------------------------
(* Bounds of the model *)

MaxN == 1100
MaxPrimeInput == 10000
MaxBase == 12
MaxExp == 6
MaxMod == 8
MaxPair == 40
MaxArgLen == 2

----------------------------------------------------------------------------
(* Option<u64> *)

None == << >>
Some(p) == <<p>>
IsSome(r) == Len(r) = 1
Unwrap(r) == r[1]

----------------------------------------------------------------------------
(* Modular Arithmetic Unit *)

\* u64::is_multiple_of(self, rhs): rhs is never 0 at the call sites.
is_multiple_of(a, b) == a % b = 0

\* ((a as u128 * b as u128) % m as u128) as u64
mod_mul(a, b, m) == (a * b) % m

\* PowEntry with result started at 1 instead of 1 % modu.
PowEntryUnreduced(base, exp, modu) ==
    [result |-> 1, base |-> base % modu, exp |-> exp, modu |-> modu]

\* mod_pow, lines 91-92: the state on entry to the while loop.
PowEntry(base, exp, modu) ==
    [result |-> 1 % modu, base |-> base % modu, exp |-> exp, modu |-> modu]

\* mod_pow, lines 95-99: one iteration of the while loop.
PowBody(st) ==
    [result |-> IF st.exp % 2 = 1
                THEN mod_mul(st.result, st.base, st.modu)
                ELSE st.result,
     base   |-> mod_mul(st.base, st.base, st.modu),
     exp    |-> st.exp \div 2,
     modu   |-> st.modu]

\* mod_pow, lines 94-102: the while loop and the return.  (The loops of the
\* oracle that carry a value from one iteration to the next are recursive
\* functions: a function's argument is evaluated once, before the body.)
PowRun ==
    LET run[st \in [result : Nat, base : Nat, exp : Nat, modu : Nat]] ==
            IF st.exp > 0 THEN run[PowBody(st)] ELSE st.result
    IN run

mod_pow(base, exp, modu) == PowRun[PowEntry(base, exp, modu)]

----------------------------------------------------------------------------
(* Primality Oracle *)

SMALL_PRIMES == <<2, 3, 5, 7, 11, 13, 17>>

\* BASES cut down to its first base.
BASES_first == <<2>>

BASES == <<2, 325, 9375, 28178, 450775, 9780504, 1795265022>>

\* SmallPrimeFilter without the n == p tests: every multiple of a small
\* prime, the small primes included, is rejected.
RECURSIVE SmallPrimeFilterNoEq(_, _)
SmallPrimeFilterNoEq(k, i) ==
    IF i > Len(SMALL_PRIMES) THEN "pass"
    ELSE IF is_multiple_of(k, SMALL_PRIMES[i]) THEN "composite"
    ELSE SmallPrimeFilterNoEq(k, i + 1)

\* The for loop over SMALL_PRIMES: "prime" and "composite" are its two
\* returns, "pass" is falling out of the loop.
RECURSIVE SmallPrimeFilter(_, _)
SmallPrimeFilter(k, i) ==
    IF i > Len(SMALL_PRIMES) THEN "pass"
    ELSE IF k = SMALL_PRIMES[i] THEN "prime"
    ELSE IF is_multiple_of(k, SMALL_PRIMES[i])
         THEN (IF k = SMALL_PRIMES[i] THEN "prime" ELSE "composite")
    ELSE SmallPrimeFilter(k, i + 1)

\* while d.is_multiple_of(2) { d >>= 1; s += 1; }
Decompose ==
    LET halve[d \in Nat, s \in Nat] ==
            IF is_multiple_of(d, 2) THEN halve[d \div 2, s + 1]
            ELSE [d |-> d, s |-> s]
    IN halve

\* for _ in 1..s { x = mod_mul(x, x, n); if x == n - 1 { continue 'outer } }
\* j counts the iterations still to run; TRUE is "continue 'outer", FALSE is
\* falling out of the loop onto "return false".
SquareLoop ==
    LET square[x \in Nat, j \in Int, k \in Nat] ==
            IF j <= 0 THEN FALSE
            ELSE LET x2 == mod_mul(x, x, k)
                 IN IF x2 = k - 1 THEN TRUE ELSE square[x2, j - 1, k]
    IN square

\* WitnessPasses without the x == n - 1 test of line 69.
WitnessPassesNoMinusOne(a, d, s, k) ==
    IF a % k = 0 THEN TRUE
    ELSE LET x == mod_pow(a % k, d, k)
         IN IF x = 1 THEN TRUE
            ELSE SquareLoop[x, s - 1, k]

\* The body of 'outer for one base a: TRUE when the loop continues.
WitnessPasses(a, d, s, k) ==
    IF a % k = 0 THEN TRUE
    ELSE LET x == mod_pow(a % k, d, k)
         IN IF x = 1 \/ x = k - 1 THEN TRUE
            ELSE SquareLoop[x, s - 1, k]

RECURSIVE BasesLoop(_, _, _, _)
BasesLoop(i, d, s, k) ==
    IF i > Len(BASES) THEN TRUE
    ELSE IF WitnessPasses(BASES[i], d, s, k) THEN BasesLoop(i + 1, d, s, k)
    ELSE FALSE

is_prime(k) ==
    IF k < 2 THEN FALSE
    ELSE LET f == SmallPrimeFilter(k, 1)
         IN IF f = "prime" THEN TRUE
            ELSE IF f = "composite" THEN FALSE
            ELSE LET ds == Decompose[k - 1, 0]
                 IN BasesLoop(1, ds.d, ds.s, k)

----------------------------------------------------------------------------
(* Search Driver *)

\* SatSub descending by one: even candidates are not skipped.
SatSubOne(a, b) == IF a >= 1 THEN a - 1 ELSE 0

\* SatSub whose result is discarded: candidate keeps its value.
SatSubDiscarded(a, b) == a

\* u64::saturating_sub
SatSub(a, b) == IF a >= b THEN a - b ELSE 0

\* StartCandidate without the step onto an odd number.
StartCandidateNoParity(k) == k - 1

\* StartCandidate with candidate >= 2 for candidate > 2: 2 is stepped to 1.
StartCandidateFromTwo(k) ==
    LET c == k - 1
    IN IF c >= 2 /\ is_multiple_of(c, 2) THEN c - 1 ELSE c

\* Lines 8-13: candidate on entry to the loop.
StartCandidate(k) ==
    LET c == k - 1
    IN IF c > 2 /\ is_multiple_of(c, 2) THEN c - 1 ELSE c

\* Lines 28-32: the re-check after the loop.
PostLoop(c) == IF c >= 2 /\ is_prime(c) THEN Some(c) ELSE None

RECURSIVE SearchLoop(_)
SearchLoop(c) ==
    IF is_prime(c) THEN Some(c)
    ELSE IF c <= 3 THEN PostLoop(c)
    ELSE SearchLoop(SatSub(c, 2))

largest_prime_below(k) ==
    IF k <= 2 THEN None ELSE SearchLoop(StartCandidate(k))

----------------------------------------------------------------------------
(* One call of largest_prime_below, one action per entry and per loop      *)
(* iteration.  tested records the arguments of the calls of is_prime in    *)
(* order, subFrom the candidates saturating_sub was applied to, exitAt the *)
(* return statement taken: "guard" (line 5), "loop" (line 17), "post"      *)
(* (lines 28-32, reached through the break of line 21).                    *)

\* Lines 4-13.
Call ==
    /\ pc = "idle"
    /\ \E k \in 0..MaxN :
        /\ n' = k
        /\ IF k <= 2
           THEN /\ result' = None
                /\ exitAt' = "guard"
                /\ pc' = "done"
                /\ UNCHANGED candidate
           ELSE /\ candidate' = StartCandidate(k)
                /\ pc' = "loop"
                /\ UNCHANGED <<result, exitAt>>
    /\ UNCHANGED <<tested, subFrom>>
    /\ UNCHANGED <<oracleVars, powVars, monoVars, cliVars>>

\* Lines 15-32: one iteration of the loop; the iteration that breaks runs on
\* into the re-check after the loop.
SearchIter ==
    /\ pc = "loop"
    /\ IF is_prime(candidate)
       THEN /\ tested' = Append(tested, candidate)
            /\ result' = Some(candidate)
            /\ exitAt' = "loop"
            /\ pc' = "done"
            /\ UNCHANGED <<candidate, subFrom>>
       ELSE IF candidate <= 3
       THEN /\ tested' = IF candidate >= 2
                         THEN tested \o <<candidate, candidate>>
                         ELSE Append(tested, candidate)
            /\ result' = PostLoop(candidate)
            /\ exitAt' = "post"
            /\ pc' = "done"
            /\ UNCHANGED <<candidate, subFrom>>
       ELSE /\ tested' = Append(tested, candidate)
            /\ candidate' = SatSub(candidate, 2)
            /\ subFrom' = subFrom \cup {candidate}
            /\ UNCHANGED <<result, exitAt, pc>>
    /\ UNCHANGED n
    /\ UNCHANGED <<oracleVars, powVars, monoVars, cliVars>>

----------------------------------------------------------------------------
(* One call of is_prime *)

OracleCall ==
    /\ opc = "idle"
    /\ \E k \in 0..MaxPrimeInput :
        /\ on' = k
        /\ oans' = is_prime(k)
    /\ opc' = "done"
    /\ UNCHANGED <<searchVars, powVars, monoVars, cliVars>>

----------------------------------------------------------------------------
(* One call of mod_pow, one action per iteration of its loop *)

PowCall ==
    /\ ppc = "idle"
    /\ \E b \in 0..MaxBase, e \in 0..MaxExp, m \in 1..MaxMod :
        /\ pw0' = [base |-> b, exp |-> e, modu |-> m]
        /\ pw' = PowEntry(b, e, m)
    /\ ppc' = "loop"
    /\ UNCHANGED <<searchVars, oracleVars, monoVars, cliVars>>

PowIter ==
    /\ ppc = "loop"
    /\ pw.exp > 0
    /\ pw' = PowBody(pw)
    /\ UNCHANGED <<pw0, ppc>>
    /\ UNCHANGED <<searchVars, oracleVars, monoVars, cliVars>>

PowReturn ==
    /\ ppc = "loop"
    /\ ~(pw.exp > 0)
    /\ ppc' = "done"
    /\ UNCHANGED <<pw, pw0>>
    /\ UNCHANGED <<searchVars, oracleVars, monoVars, cliVars>>

----------------------------------------------------------------------------
(* Two calls of largest_prime_below on a pair a <= b *)

PairCall ==
    /\ mpc = "idle"
    /\ \E a \in 0..MaxPair, b \in 0..MaxPair :
        /\ a <= b
        /\ ma' = a
        /\ mb' = b
        /\ ra' = largest_prime_below(a)
        /\ rb' = largest_prime_below(b)
    /\ mpc' = "done"
    /\ UNCHANGED <<searchVars, oracleVars, powVars, cliVars>>

----------------------------------------------------------------------------
(* The executables.  argv holds the arguments after the program name, each *)
(* a sequence of characters.                                               *)

DigitChars == <<"0", "1", "2", "3", "4", "5", "6", "7", "8", "9">>
Chars == {DigitChars[i] : i \in 1..Len(DigitChars)} \cup {"+", "-", "x"}

IsDigit(c) == \E i \in 1..Len(DigitChars) : DigitChars[i] = c
DigitVal(c) == (CHOOSE i \in 1..Len(DigitChars) : DigitChars[i] = c) - 1

RECURSIVE DigitsVal(_, _)
DigitsVal(s, acc) ==
    IF s = << >> THEN acc ELSE DigitsVal(Tail(s), acc * 10 + DigitVal(Head(s)))

\* str::parse::<u64>: an optional leading "+", then one or more decimal
\* digits (no string of the model is long enough to exceed u64::MAX).
ParseU64(s) ==
    LET digits == IF Len(s) > 1 /\ s[1] = "+" THEN Tail(s) ELSE s
        ok == Len(digits) > 0 /\ \A i \in 1..Len(digits) : IsDigit(digits[i])
    IN [ok |-> ok, val |-> IF ok THEN DigitsVal(digits, 0) ELSE 0]

Strings == UNION {[1..l -> Chars] : l \in 0..MaxArgLen}
Argvs == {<< >>} \cup {<<s>> : s \in Strings}

\* src/main.rs
MainRs ==
    /\ cpc = "boot"
    /\ \E av \in Argvs :
        /\ argv' = av
        /\ IF av = << >>
           THEN /\ stderr' = <<<<"Usage: largest_prime_below <number>">>>>
                /\ stdout' = << >>
                /\ exitCode' = 1
                /\ outcome' = "not_called"
           ELSE LET r == ParseU64(av[1]) IN
                IF ~r.ok
                THEN /\ stderr' = <<<<"Error: not a valid unsigned integer", av[1]>>>>
                     /\ stdout' = << >>
                     /\ exitCode' = 1
                     /\ outcome' = "not_called"
                ELSE LET res == largest_prime_below(r.val) IN
                     /\ stdout' = IF IsSome(res)
                                  THEN <<<<"Largest prime less than", r.val, Unwrap(res)>>>>
                                  ELSE <<<<"There is no prime less than", r.val>>>>
                     /\ stderr' = << >>
                     /\ exitCode' = 0
                     /\ outcome' = IF IsSome(res) THEN "some" ELSE "none"
    /\ entry' = "main.rs"
    /\ cpc' = "exited"
    /\ UNCHANGED <<searchVars, oracleVars, powVars, monoVars>>

\* src/bin/largest_prime_below.rs.  Cli::parse() (clap) rejects a missing or
\* malformed argument and ends the process itself; main's match is reached
\* with a parsed u64 only.
BinMain ==
    /\ cpc = "boot"
    /\ \E av \in Argvs :
        /\ Len(av) = 1
        /\ ParseU64(av[1]).ok
        /\ argv' = av
        /\ LET number == ParseU64(av[1]).val
               res == largest_prime_below(number)
           IN IF IsSome(res)
              THEN /\ stdout' = <<<<Unwrap(res)>>>>
                   /\ stderr' = << >>
                   /\ exitCode' = 0
                   /\ outcome' = "some"
              ELSE /\ stderr' = <<<<"There is no prime less than", number>>>>
                   /\ stdout' = << >>
                   /\ exitCode' = 1
                   /\ outcome' = "none"
    /\ entry' = "bin/largest_prime_below.rs"
    /\ cpc' = "exited"
    /\ UNCHANGED <<searchVars, oracleVars, powVars, monoVars>>

----------------------------------------------------------------------------
(* Specifications *)

Init ==
    /\ pc = "idle" /\ n = 0 /\ candidate = 0 /\ result = None
    /\ tested = << >> /\ subFrom = {} /\ exitAt = "none"
    /\ on = 0 /\ oans = FALSE /\ opc = "idle"
    /\ pw = [result |-> 0, base |-> 0, exp |-> 0, modu |-> 1]
    /\ pw0 = [base |-> 0, exp |-> 0, modu |-> 1]
    /\ ppc = "idle"
    /\ ma = 0 /\ mb = 0 /\ ra = None /\ rb = None /\ mpc = "idle"
    /\ entry = "none" /\ argv = << >> /\ outcome = "not_called"
    /\ stdout = << >> /\ stderr = << >> /\ exitCode = 0 /\ cpc = "boot"

Next == Call \/ SearchIter
Spec == Init /\ [][Next]_vars

\* A call, once made, runs: nothing suspends it.
FairSpec == Spec /\ WF_vars(Next)

NextPrime == OracleCall
SpecPrime == Init /\ [][NextPrime]_vars

NextPow == PowCall \/ PowIter \/ PowReturn
SpecPow == Init /\ [][NextPow]_vars

NextPair == PairCall
SpecPair == Init /\ [][NextPair]_vars

NextCli == MainRs \/ BinMain
SpecCli == Init /\ [][NextCli]_vars

----------------------------------------------------------------------------
(* Properties *)

\* Trial division: k >= 2 and no d with 2 <= d < k divides k.
TrialPrime(k) == k >= 2 /\ \A d \in 2..(k - 1) : k % d # 0

\* base^exp over the integers.
RECURSIVE IntPow(_, _)
IntPow(b, e) == IF e = 0 THEN 1 ELSE b * IntPow(b, e - 1)

\* The single uniform descending loop: every odd candidate down to 3, then 2.
RECURSIVE UniformLoop(_)
UniformLoop(c) ==
    IF c < 2 THEN None
    ELSE IF is_prime(c) THEN Some(c)
    ELSE IF c = 2 THEN None
    ELSE IF c = 3 THEN UniformLoop(2)
    ELSE UniformLoop(c - 2)

UniformSearch(k) ==
    IF k <= 2 THEN None
    ELSE UniformLoop(IF (k - 1) % 2 = 0 /\ k - 1 > 2 THEN k - 2 ELSE k - 1)

\* The statement-level call and the function agree (a consistency check of
\* the two renderings of largest_prime_below).
StepAgreesWithFunction == pc = "done" => result = largest_prime_below(n)

\* C1: for every n > 2, largest_prime_below(n) returns Some(p) with p prime,
\* p < n and no prime q with p < q < n.
GreatestPrimeBelow ==
    (pc = "done" /\ n > 2) =>
        /\ IsSome(result)
        /\ TrialPrime(Unwrap(result))
        /\ Unwrap(result) < n
        /\ \A q \in (Unwrap(result) + 1)..(n - 1) : ~TrialPrime(q)

GreatestPrimeBelowWitness ==
    pc = "done" /\ n > 2 /\ Len(tested) >= 4 /\ IsSome(result)

\* C2: largest_prime_below(n) returns None exactly when n <= 2, and for
\* n <= 2 it returns without calling is_prime.
NoneIffAtMostTwo ==
    pc = "done" =>
        /\ (result = None) <=> (n <= 2)
        /\ (n <= 2) => (tested = << >> /\ exitAt = "guard")

NoneIffAtMostTwoWitness ==
    pc = "done" /\ n = 2 /\ result = None /\ tested = << >>

\* C3: for every n in [0, 10000], is_prime(n) is true exactly when n >= 2
\* and n has no divisor d with 2 <= d < n, also where a witness base is
\* skipped because a mod n = 0.
OracleAgreesWithTrialDivision ==
    opc = "done" => (oans <=> TrialPrime(on))

\* is_prime ran its witness loop on on and skipped a base there.
BaseSkipped ==
    /\ on >= 2
    /\ SmallPrimeFilter(on, 1) = "pass"
    /\ \E i \in 1..Len(BASES) : BASES[i] % on = 0

OracleAgreesWitness ==
    opc = "done" /\ BaseSkipped /\ oans /\ on > 17

\* C4: when largest_prime_below returns None, the program writes its
\* diagnostic to the error stream and exits with status 1, whichever
\* executable ran.
NoPrimeExitsOne ==
    (cpc = "exited" /\ outcome = "none") =>
        (Len(stderr) > 0 /\ exitCode = 1)

\* C5: largest_prime_below(n) terminates; candidate strictly decreases on
\* every iteration of the loop that neither returns nor breaks.
Terminates ==
    /\ [][(pc = "loop" /\ pc' = "loop") => candidate' < candidate]_vars
    /\ (pc = "loop") ~> (pc = "done")

TerminatesWitness ==
    pc = "done" /\ Cardinality(subFrom) >= 3

\* C6: for a <= b with largest_prime_below(a) and largest_prime_below(b)
\* both Some, the value for a is at most the value for b.
Monotone ==
    (mpc = "done" /\ ma <= mb /\ IsSome(ra) /\ IsSome(rb)) =>
        Unwrap(ra) <= Unwrap(rb)

MonotoneWitness ==
    mpc = "done" /\ ma < mb /\ IsSome(ra) /\ IsSome(rb)
    /\ Unwrap(ra) < Unwrap(rb)

\* C7: for modulus m >= 1, mod_pow(base, exp, m) is base^exp mod m over the
\* integers, exp = 0 gives 1 mod m (0 when m = 1), and result and base stay
\* below m throughout.
ModPowExact ==
    /\ ppc # "idle" => (pw.result < pw.modu /\ pw.base < pw.modu)
    /\ ppc = "done" =>
        /\ pw.result = IntPow(pw0.base, pw0.exp) % pw0.modu
        /\ pw.result = mod_pow(pw0.base, pw0.exp, pw0.modu)
        /\ pw0.exp = 0 => pw.result = (IF pw0.modu = 1 THEN 0 ELSE 1)

ModPowExactWitness ==
    ppc = "done" /\ pw0.exp >= 5 /\ pw0.base > pw0.modu /\ pw.result > 1

\* C8: for n > 2, every value passed to is_prime is odd or exactly 2, and 2
\* is passed only when n = 3.
OnlyOddOrTwoTested ==
    n > 2 =>
        \A i \in 1..Len(tested) :
            /\ tested[i] % 2 = 1 \/ tested[i] = 2
            /\ tested[i] = 2 => n = 3

OnlyOddOrTwoTestedWitness ==
    pc = "done" /\ n > 2 /\ n % 2 = 0 /\ Len(tested) >= 3

\* C9: for every n, the two-phase search returns what the single uniform
\* descending loop returns.
SameAsUniformLoop ==
    pc = "done" => result = UniformSearch(n)

SameAsUniformLoopWitness ==
    pc = "done" /\ n > 2 /\ Len(tested) >= 2 /\ result = UniformSearch(n)

\* C10: for n > 2, candidate stays >= 2, saturating_sub is applied only to
\* a candidate >= 5, and the call returns from the is_prime branch of the
\* loop: neither the break nor the re-check after the loop is reached.
ReturnsFromLoop ==
    (pc # "idle" /\ n > 2) =>
        /\ candidate >= 2
        /\ \A c \in subFrom : c >= 5
        /\ pc = "done" => exitAt = "loop"

ReturnsFromLoopWitness ==
    pc = "done" /\ n > 2 /\ candidate = 7 /\ 9 \in subFrom /\ exitAt = "loop"

====
